---- MODULE Spec2Model ----
(***************************************************************************)
(* Model of server/index.js: the refresh orchestrator, the record          *)
(* normalizer, the track builder, the earthquake normalizer, the           *)
(* nearest-event joiner and the query handlers of the Express server.      *)
(*                                                                         *)
(* JSON values are modelled as tagged records [t |-> kind, v |-> payload]: *)
(*   undef, null, nan, inf, num (v an integer), str (v a string),          *)
(*   iso (an ISO-8601 string produced by Date.toISOString, v its instant), *)
(*   arr (v a sequence of values), obj (v a sequence of <<key, value>>).   *)
(* An operator that can raise a JavaScript exception returns Thrown.       *)
(***************************************************************************)
EXTENDS Integers, Sequences, FiniteSets, TLC

(***************************************************************************)
(* Bounds of the model.                                                    *)
(***************************************************************************)
\* hour offsets below this bound may answer; the others always fail
MaxLiveHours == 1
\* refresh cycles started in one run (the bootstrap cycle included)
MaxCycles == 3
\* clock ticks the run may advance
MaxTicks == 1
\* the clock's scale: ticks per hour (index.js multiplies by 3600 * 1000 ms)
TicksPerHour == 2
\* the records of one frame of the tracks specification
MaxRecords == 2
\* the features of one feed of the join specification
MaxEvents == 3
\* the records of the frame of the metrics specification
MaxPoints == 3
\* the inquiries the server stores in one run
MaxQuestions == 2
FrameHours == 3
SharedCycles == 2
\* the records of the newest frame of the bare-array specification
MaxArrays == 2

(***************************************************************************)
(* Program constants.                                                      *)
(***************************************************************************)
MAX_LOOKBACK_HOURS == 24
EarthRadiusKm == 6371

(***************************************************************************)
(* JavaScript values and coercions.                                        *)
(***************************************************************************)
Undef == [t |-> "undef", v |-> 0]
Null == [t |-> "null", v |-> 0]
NaN == [t |-> "nan", v |-> 0]
Infinity == [t |-> "inf", v |-> 0]
Thrown == [t |-> "throw", v |-> 0]
Num(n) == [t |-> "num", v |-> n]
Str(s) == [t |-> "str", v |-> s]
Iso(ms) == [t |-> "iso", v |-> ms]
Arr(s) == [t |-> "arr", v |-> s]
Obj(kv) == [t |-> "obj", v |-> kv]

IsThrown(x) == x.t = "throw"
IsNullish(x) == x.t \in {"undef", "null"}

\* own property k of object o (Undef when absent)
HasOwn(o, k) == o.t = "obj" /\ \E i \in 1..Len(o.v) : o.v[i][1] = k
OwnValue(o, k) == o.v[CHOOSE i \in 1..Len(o.v) : o.v[i][1] = k][2]

\* x.k for a property name: a TypeError on undefined and null
GetProp(x, k) ==
  IF IsNullish(x) THEN Thrown
  ELSE IF HasOwn(x, k) THEN OwnValue(x, k)
  ELSE Undef

\* x?.k
GetOpt(x, k) == IF IsNullish(x) THEN Undef ELSE GetProp(x, k)

\* x[i] for a zero-based index of an array
GetIndex(x, i) ==
  IF IsNullish(x) THEN Thrown
  ELSE IF x.t = "arr" /\ i < Len(x.v) THEN x.v[i + 1]
  ELSE Undef

IsArray(x) == x.t = "arr"

\* !!x
Truthy(x) ==
  CASE x.t \in {"undef", "null", "nan"} -> FALSE
    [] x.t = "num" -> x.v # 0
    [] x.t = "str" -> x.v # ""
    [] OTHER -> TRUE

\* a || b
Or(a, b) == IF Truthy(a) THEN a ELSE b

\* a ?? b
Coalesce(a, b) == IF IsNullish(a) THEN b ELSE a

\* The numeric value of the string literals the inputs use (StringToNumber):
\* the empty string is 0, a decimal literal its value, anything else NaN.
StringToNumber(s) ==
  CASE s = "" -> Num(0)
    [] s = "0" -> Num(0)
    [] s = "90" -> Num(90)
    [] s = "-90" -> Num(0 - 90)
    [] OTHER -> NaN

\* Number(x). A JSON object converts through Object.prototype.toString
\* ("[object Object]", hence NaN) unless it has an own, and therefore not
\* callable, toString member: OrdinaryToPrimitive then raises a TypeError.
\* An array converts through join: [] is "", [x] is String(x).
RECURSIVE ToNumber(_)
ToNumber(x) ==
  CASE x.t = "undef" -> NaN
    [] x.t = "null" -> Num(0)
    [] x.t \in {"num", "nan", "inf"} -> x
    [] x.t = "str" -> StringToNumber(x.v)
    [] x.t = "iso" -> NaN
    [] x.t = "obj" -> IF HasOwn(x, "toString") THEN Thrown ELSE NaN
    [] x.t = "arr" ->
         IF Len(x.v) = 0 THEN Num(0)
         ELSE IF Len(x.v) > 1 THEN
           (IF \E i \in 1..Len(x.v) : IsThrown(ToNumber(x.v[i])) THEN Thrown ELSE NaN)
         ELSE IF IsNullish(x.v[1]) THEN Num(0)
         ELSE ToNumber(x.v[1])
    [] OTHER -> Thrown

\* Number.isFinite(x): no coercion
NumberIsFinite(x) == x.t = "num"

\* the global isFinite(x): coerces first, so isFinite(null) is true
GlobalIsFinite(x) == ToNumber(x).t = "num"

\* String(x) for the values an identifier can hold
ToStr(x) ==
  CASE x.t = "str" -> x
    [] x.t = "num" -> Str(ToString(x.v))
    [] x.t = "iso" -> x
    [] x.t = "obj" -> IF HasOwn(x, "toString") THEN Thrown ELSE Str("[object Object]")
    [] x.t = "arr" -> IF Len(x.v) = 0 THEN Str("") ELSE Str("[array]")
    [] x.t = "undef" -> Str("undefined")
    [] x.t = "null" -> Str("null")
    [] x.t = "nan" -> Str("NaN")
    [] x.t = "inf" -> Str("Infinity")
    [] OTHER -> Thrown

Ok(x) == [t |-> "ok", v |-> x]

MinOf(S) == CHOOSE i \in S : \A j \in S : i <= j

\* the member of a one-element set: Only({e(x) : x \in {v}}) is e(v), with v
\* evaluated once, as an assignment to a local constant is
Only(S) == CHOOSE x \in S : TRUE

(***************************************************************************)
(* Dates.  An instant is an integer number of clock ticks.                 *)
(***************************************************************************)
\* Date.parse of a string literal of the inputs: none of them is a date
DateParse(s) == NaN

\* new Date(x).getTime(): NaN for an invalid date
DateOf(x) ==
  CASE x.t = "num" -> x
    [] x.t = "iso" -> Num(x.v)
    [] x.t = "null" -> Num(0)
    [] x.t = "str" -> DateParse(x.v)
    [] x.t = "obj" -> IF HasOwn(x, "toString") THEN Thrown ELSE NaN
    [] OTHER -> NaN

\* new Date(x).toISOString(): a RangeError on an invalid date
ToISOString(x) ==
  LET d == DateOf(x)
  IN IF d.t = "num" THEN Iso(d.v) ELSE Thrown

\* index.js:242-246
parseTimestamp(value) ==
  IF ~Truthy(value) THEN Null
  ELSE LET d == DateOf(value)
       IN CASE d.t = "throw" -> Thrown
            [] d.t = "num" -> Iso(d.v)
            [] OTHER -> Null

\* hourOffset.toString().padStart(2, '0')
HourTag(h) == IF h < 10 THEN "0" \o ToString(h) ELSE ToString(h)

(***************************************************************************)
(* Record normalizer.                                                      *)
(***************************************************************************)

\* index.js:248-254: the first candidate whose Number() is finite, else null
pickNumber(candidates) ==
  LET hit == {i \in 1..Len(candidates) : ToNumber(candidates[i]).t \in {"num", "throw"}}
  IN IF hit = {} THEN Null ELSE ToNumber(candidates[MinOf(hit)])

\* index.js:219-240
extractCoordinates(entry) ==
  LET location == Or(GetProp(entry, "location"),
                  Or(GetProp(entry, "position"),
                  Or(GetProp(entry, "coordinates"),
                  Or(GetProp(entry, "coord"), GetProp(entry, "coords")))))
      lat == pickNumber(<<GetProp(entry, "lat"), GetProp(entry, "latitude"),
                          GetOpt(location, "lat"), GetOpt(location, "latitude"),
                          IF IsArray(location) THEN GetIndex(location, 1) ELSE Null>>)
      lon == pickNumber(<<GetProp(entry, "lon"), GetProp(entry, "lng"),
                          GetProp(entry, "longitude"),
                          GetOpt(location, "lon"), GetOpt(location, "lng"),
                          GetOpt(location, "longitude"),
                          IF IsArray(location) THEN GetIndex(location, 0) ELSE Null>>)
  IN [lat |-> lat, lon |-> lon]

\* index.js:163-179: a bare array [lat, lon, altitude]
normalizeArrayEntry(entry, frame, idx) ==
  LET lat == ToNumber(GetIndex(entry, 0))
      lon == ToNumber(GetIndex(entry, 1))
      altitude == ToNumber(GetIndex(entry, 2))
  IN IF IsThrown(lat) \/ IsThrown(lon) \/ IsThrown(altitude) THEN Thrown
     ELSE IF ~NumberIsFinite(lat) \/ ~NumberIsFinite(lon) THEN Null
     ELSE Ok([balloonId |-> "coord-" \o frame.hourTag \o "-" \o ToString(idx),
              timestamp |-> ToISOString(Num(frame.timestamp)),
              hourTag |-> frame.hourTag,
              lat |-> lat,
              lon |-> lon,
              altitude |-> IF NumberIsFinite(altitude) THEN altitude ELSE Null,
              speed |-> Null,
              bearing |-> Null,
              raw |-> Obj(<< <<"lat", GetIndex(entry, 0)>>, <<"lon", GetIndex(entry, 1)>>,
                             <<"altitude", GetIndex(entry, 2)>> >>)])

\* index.js:181-217: a structured object
normalizeObjectEntry(entry, frame, idx) ==
  LET balloonId == Or(GetProp(entry, "id"),
                   Or(GetProp(entry, "balloonId"),
                   Or(GetProp(entry, "callsign"),
                   Or(GetProp(entry, "name"),
                   Or(GetProp(entry, "serial"),
                   Or(GetProp(entry, "device"),
                      Str("unknown-" \o frame.hourTag \o "-" \o ToString(idx))))))))
      c == extractCoordinates(entry)
      altitude == pickNumber(<<GetProp(entry, "altitude"), GetProp(entry, "alt"),
                               GetProp(entry, "elevation"), GetProp(entry, "height")>>)
      speed == pickNumber(<<GetProp(entry, "speed"), GetProp(entry, "vel"),
                            GetProp(entry, "velocity")>>)
      bearing == pickNumber(<<GetProp(entry, "bearing"), GetProp(entry, "heading"),
                              GetProp(entry, "course")>>)
      timestamp == Or(parseTimestamp(GetProp(entry, "timestamp")),
                   Or(parseTimestamp(GetProp(entry, "time")),
                   Or(parseTimestamp(GetProp(entry, "recorded_at")),
                   Or(parseTimestamp(GetProp(entry, "ts")),
                      ToISOString(Num(frame.timestamp))))))
  IN IF IsThrown(c.lat) \/ IsThrown(c.lon) THEN Thrown
     ELSE IF ~GlobalIsFinite(c.lat) \/ ~GlobalIsFinite(c.lon) THEN Null
     ELSE IF IsThrown(altitude) \/ IsThrown(speed) \/ IsThrown(bearing)
             \/ IsThrown(timestamp) \/ IsThrown(ToStr(balloonId)) THEN Thrown
     ELSE Ok([balloonId |-> ToStr(balloonId).v,
              timestamp |-> timestamp,
              hourTag |-> frame.hourTag,
              lat |-> c.lat,
              lon |-> c.lon,
              altitude |-> Coalesce(altitude, Null),
              speed |-> Coalesce(speed, Null),
              bearing |-> Coalesce(bearing, Null),
              raw |-> entry])

\* index.js:160-217: Null (no sample), Ok(sample) or Thrown
normalizeBalloon(entry, frame, idx) ==
  IF ~Truthy(entry) THEN Null
  ELSE IF IsArray(entry) THEN normalizeArrayEntry(entry, frame, idx)
  ELSE IF entry.t # "obj" THEN Null
  ELSE normalizeObjectEntry(entry, frame, idx)

(***************************************************************************)
(* Geo utility.  Coordinates are whole degrees on the grid of multiples of *)
(* 90, where the haversine terms are exact; a distance is an integer       *)
(* number of 10^-4 km.                                                     *)
(***************************************************************************)
\* 2 * sin(d / 2)^2 for d degrees
TwiceSinSqHalf(d) ==
  CASE d % 360 = 0 -> 0
    [] d % 360 = 90 -> 1
    [] d % 360 = 180 -> 2
    [] d % 360 = 270 -> 1

\* cos(d) for d degrees
CosDeg(d) ==
  CASE d % 360 = 0 -> 1
    [] d % 360 = 90 -> 0
    [] d % 360 = 180 -> 0 - 1
    [] d % 360 = 270 -> 0

\* asin(sqrt(a)) in 10^-4 rad, for twoA = 2 * a
AsinSqrt(twoA) ==
  CASE twoA = 0 -> 0
    [] twoA = 1 -> 7854
    [] twoA = 2 -> 15708

\* index.js:333-342; the operands are coerced by the arithmetic operators
haversineKm(lat1, lon1, lat2, lon2) ==
  LET a1 == ToNumber(lat1)
      o1 == ToNumber(lon1)
      a2 == ToNumber(lat2)
      o2 == ToNumber(lon2)
      all == <<a1, o1, a2, o2>>
  IN IF \E i \in 1..4 : IsThrown(all[i]) THEN Thrown
     ELSE IF \E i \in 1..4 : all[i].t # "num" THEN NaN
     ELSE LET twoA == TwiceSinSqHalf(a2.v - a1.v)
                      + CosDeg(a1.v) * CosDeg(a2.v) * TwiceSinSqHalf(o2.v - o1.v)
          IN Num(2 * EarthRadiusKm * AsinSqrt(twoA))

\* Number(x.toFixed(digits)) of a distance: step is 10^(4 - digits) units
RoundUnits(x, step) == ((x + step \div 2) \div step) * step

(***************************************************************************)
(* Track builder.                                                          *)
(***************************************************************************)
\* index.js:121-126
countEntries(payload) ==
  IF ~Truthy(payload) THEN 0
  ELSE IF payload.t \in {"arr", "obj"} THEN Len(payload.v)
  ELSE 0

\* Object.values(payload)
ObjectValues(payload) == [i \in 1..Len(payload.v) |-> payload.v[i][2]]

\* typeof x === 'object'
IsObjectType(x) == x.t \in {"null", "arr", "obj"}

\* index.js:146-158: the records of a payload, as a sequence
RECURSIVE unwrapEntries(_)
unwrapEntries(payload) ==
  IF ~Truthy(payload) THEN <<>>
  ELSE IF IsArray(payload) THEN payload.v
  ELSE IF payload.t = "obj" THEN
    (IF IsArray(GetProp(payload, "balloons")) THEN GetProp(payload, "balloons").v
     ELSE IF IsArray(GetProp(payload, "constellation"))
       THEN GetProp(payload, "constellation").v
     ELSE IF IsObjectType(GetProp(payload, "data"))
       THEN unwrapEntries(GetProp(payload, "data"))
     ELSE ObjectValues(payload))
  ELSE <<>>

\* the comparator of index.js:259: new Date(a.timestamp) - new Date(b.timestamp)
TimeOf(sample) == DateOf(sample.timestamp).v

\* the comparison with < : a sample is put before the samples of its own
\* timestamp, which reverses their encounter order
InsertBeforeEqual(sorted, x) ==
  LET k == Cardinality({i \in 1..Len(sorted) : TimeOf(sorted[i]) < TimeOf(x)})
  IN SubSeq(sorted, 1, k) \o <<x>> \o SubSeq(sorted, k + 1, Len(sorted))

\* one step of a stable sort: x goes after every sample not later than it
InsertByTime(sorted, x) ==
  LET k == Cardinality({i \in 1..Len(sorted) : TimeOf(sorted[i]) <= TimeOf(x)})
  IN SubSeq(sorted, 1, k) \o <<x>> \o SubSeq(sorted, k + 1, Len(sorted))

\* Array.prototype.sort with that comparator (stable since ES2019)
RECURSIVE SortByTime(_)
SortByTime(s) ==
  IF Len(s) <= 1 THEN s
  ELSE InsertByTime(SortByTime(SubSeq(s, 1, Len(s) - 1)), s[Len(s)])

\* the distance from the first sample to the last instead of the sum
computeEndpointDistance(points) ==
  IF Len(points) <= 1 THEN 0
  ELSE haversineKm(points[1].lat, points[1].lon,
                   points[Len(points)].lat, points[Len(points)].lon).v

\* index.js:277-286
RECURSIVE computePathDistance(_)
computePathDistance(points) ==
  IF Len(points) <= 1 THEN 0
  ELSE LET n == Len(points)
           prev == points[n - 1]
           curr == points[n]
           rest == computePathDistance(SubSeq(points, 1, n - 1))
       IN IF ~GlobalIsFinite(prev.lat) \/ ~GlobalIsFinite(prev.lon)
             \/ ~GlobalIsFinite(curr.lat) \/ ~GlobalIsFinite(curr.lon)
          THEN rest
          ELSE rest + haversineKm(prev.lat, prev.lon, curr.lat, curr.lon).v

\* latest and earliest taken before the sort: the last and the first sample
\* encountered
finalizeBalloonTrackUnsortedEnds(trackObj) ==
  IF Len(trackObj.track) = 0 THEN Null
  ELSE LET track == SortByTime(trackObj.track)
           latest == trackObj.track[Len(track)]
           earliest == trackObj.track[1]
       IN [balloonId |-> trackObj.balloonId,
           track |-> track,
           latest |-> latest,
           firstSeen |-> earliest.timestamp,
           lastSeen |-> latest.timestamp,
           totalDistanceKm |-> RoundUnits(computePathDistance(track), 100),
           altitudeDelta |-> Coalesce(latest.altitude, Num(0)).v
                             - Coalesce(earliest.altitude, Num(0)).v,
           sampleCount |-> Len(track)]

\* index.js:256-275
finalizeBalloonTrack(trackObj) ==
  IF Len(trackObj.track) = 0 THEN Null
  ELSE LET track == SortByTime(trackObj.track)
           latest == track[Len(track)]
           earliest == track[1]
       IN [balloonId |-> trackObj.balloonId,
           track |-> track,
           latest |-> latest,
           firstSeen |-> earliest.timestamp,
           lastSeen |-> latest.timestamp,
           totalDistanceKm |-> RoundUnits(computePathDistance(track), 100),
           altitudeDelta |-> Coalesce(latest.altitude, Num(0)).v
                             - Coalesce(earliest.altitude, Num(0)).v,
           sampleCount |-> Len(track)]

\* the normalizer's result for every record of a frame, in order
FrameResults(frame) ==
  LET entries == unwrapEntries(frame.raw)
  IN [i \in 1..Len(entries) |-> normalizeBalloon(entries[i], frame, i - 1)]

\* ... and of every frame, in frame order (the two forEach loops of 131-141)
RECURSIVE AllResults(_)
AllResults(frames) ==
  IF Len(frames) = 0 THEN <<>>
  ELSE AllResults(SubSeq(frames, 1, Len(frames) - 1)) \o FrameResults(frames[Len(frames)])

IsOk(r) == r.t = "ok"

\* the samples in the order they were encountered
Encountered(frames) ==
  LET ok == SelectSeq(AllResults(frames), IsOk)
  IN [i \in 1..Len(ok) |-> ok[i].v]

\* trackMap without its keys: an entry for every sample
TrackIdsPerSample(samples) == [i \in 1..Len(samples) |-> samples[i].balloonId]

\* the keys of trackMap in insertion order
RECURSIVE TrackIds(_)
TrackIds(samples) ==
  IF Len(samples) = 0 THEN <<>>
  ELSE LET before == TrackIds(SubSeq(samples, 1, Len(samples) - 1))
           id == samples[Len(samples)].balloonId
       IN IF \E i \in 1..Len(before) : before[i] = id THEN before ELSE Append(before, id)

\* the value of trackMap for one key
TrackObj(samples, id) ==
  LET Mine(s) == s.balloonId = id
  IN [balloonId |-> id, track |-> SelectSeq(samples, Mine)]

IsTrack(x) == "balloonId" \in DOMAIN x

\* index.js:128-144: Ok(tracks), or Thrown when a record's conversion throws
TracksOf(samples) ==
  Only({[i \in 1..Len(ids) |-> Only({finalizeBalloonTrack(trackObj) :
                                       trackObj \in {TrackObj(samples, ids[i])}})] :
        ids \in {TrackIds(samples)}})

buildBalloonTracks(frames) ==
  Only({IF \E i \in 1..Len(results) : IsThrown(results[i]) THEN Thrown
        ELSE Only({Ok(SelectSeq(TracksOf(samples), IsTrack)) :
                   samples \in {[i \in 1..Len(SelectSeq(results, IsOk)) |->
                                  SelectSeq(results, IsOk)[i].v]}}) :
        results \in {AllResults(frames)}})

(***************************************************************************)
(* Earthquake normalizer.                                                  *)
(***************************************************************************)
\* index.js:295-302: the mapping of one feature (a field is Thrown when its
\* evaluation throws)
QuakeOf(feature) ==
  LET properties == GetProp(feature, "properties")
      geometry == GetProp(feature, "geometry")
      coordinates == GetOpt(geometry, "coordinates")
  IN [id |-> GetProp(feature, "id"),
      magnitude |-> Coalesce(GetOpt(properties, "mag"), Null),
      place |-> Coalesce(GetOpt(properties, "place"), Str("Unknown")),
      occurredAt |-> ToISOString(GetOpt(properties, "time")),
      url |-> GetOpt(properties, "url"),
      coordinates |-> IF IsArray(coordinates) THEN coordinates ELSE Null]

QuakeThrows(feature) ==
  IsNullish(feature) \/ IsThrown(QuakeOf(feature).occurredAt)

\* index.js:303: the filter
HasCoordinates(quake) == IsArray(quake.coordinates) /\ Len(quake.coordinates.v) >= 2

\* index.js:288-308.  response is Thrown when axios.get rejects (network
\* error, timeout, non-2xx status), else the response body.
fetchEarthquakes(response) ==
  IF IsThrown(response) THEN <<>>
  ELSE LET features == GetOpt(response, "features")
       IN IF ~IsArray(features) THEN <<>>
          ELSE IF \E i \in 1..Len(features.v) : QuakeThrows(features.v[i]) THEN <<>>
          ELSE SelectSeq([i \in 1..Len(features.v) |-> QuakeOf(features.v[i])],
                         HasCoordinates)

(***************************************************************************)
(* Nearest-event joiner.                                                   *)
(***************************************************************************)
\* the distance from a quake to a sample, as index.js:321-322 computes it
QuakeDistance(quake, latest) ==
  haversineKm(GetIndex(quake.coordinates, 1), GetIndex(quake.coordinates, 0),
              latest.lat, latest.lon)

\* index.js:323: distance < bestDistance (false for NaN)
Closer(distance, bestDistance) ==
  /\ distance.t = "num"
  /\ (bestDistance.t = "inf" \/ distance.v < bestDistance.v)

\* index.js:317-327: the scan; the result is [nearest, bestDistance]
RECURSIVE ScanQuakes(_, _)
ScanQuakes(earthquakes, latest) ==
  IF Len(earthquakes) = 0 THEN [nearest |-> Null, bestDistance |-> Infinity]
  ELSE LET n == Len(earthquakes)
           sofar == ScanQuakes(SubSeq(earthquakes, 1, n - 1), latest)
           quake == earthquakes[n]
           distance == QuakeDistance(quake, latest)
       IN IF Closer(distance, sofar.bestDistance)
          THEN [nearest |-> quake @@ ("distanceKm" :> Num(RoundUnits(distance.v, 1000))),
                bestDistance |-> distance]
          ELSE sofar

\* index.js:329: { ...balloon, nearestEarthquake: nearest }
AttachLink(balloon, nearest) == balloon @@ ("nearestEarthquake" :> nearest)

\* index.js:310-331: Ok(balloons), or Thrown when a coordinate's conversion throws
attachNearestEarthquake(balloons, earthquakes) ==
  IF Len(earthquakes) = 0 THEN Ok(balloons)
  ELSE IF \E i \in 1..Len(balloons), j \in 1..Len(earthquakes) :
            IsThrown(QuakeDistance(earthquakes[j], balloons[i].latest)) THEN Thrown
  ELSE Ok([i \in 1..Len(balloons) |->
             AttachLink(balloons[i], ScanQuakes(earthquakes, balloons[i].latest).nearest)])

(***************************************************************************)
(* Frame loader.                                                           *)
(***************************************************************************)
Pending == [t |-> "pending", v |-> 0]

\* the test of index.js:111 left out: an empty body becomes a frame
fetchWindborneFrameKeepsEmpty(hourOffset, nowMs, response) ==
  IF IsThrown(response) THEN Null
  ELSE Ok([hourTag |-> HourTag(hourOffset),
           timestamp |-> nowMs - hourOffset * TicksPerHour,
           raw |-> response,
           recordCount |-> countEntries(response)])

\* index.js:105-119.  response is Thrown when axios.get rejects, else the
\* response body; the result is Null or Ok(frame).
fetchWindborneFrame(hourOffset, nowMs, response) ==
  IF IsThrown(response) THEN Null
  ELSE IF ~Truthy(response) THEN Null
  ELSE Ok([hourTag |-> HourTag(hourOffset),
           timestamp |-> nowMs - hourOffset * TicksPerHour,
           raw |-> response,
           recordCount |-> countEntries(response)])

\* the sort of index.js:101 left out: the frames stay in job order
InsertFrameUnsorted(sorted, f) == Append(sorted, f)

\* one step of the stable sort of index.js:101 (a.timestamp - b.timestamp)
InsertFrame(sorted, f) ==
  LET k == Cardinality({i \in 1..Len(sorted) : sorted[i].timestamp <= f.timestamp})
  IN SubSeq(sorted, 1, k) \o <<f>> \o SubSeq(sorted, k + 1, Len(sorted))

RECURSIVE SortFrames(_)
SortFrames(s) ==
  IF Len(s) <= 1 THEN s
  ELSE InsertFrame(SortFrames(SubSeq(s, 1, Len(s) - 1)), s[Len(s)])

\* index.js:100-102: the settled jobs, filtered and sorted
loadWindborneHistory(jobs) ==
  LET results == [i \in 1..MAX_LOOKBACK_HOURS |-> jobs[i - 1]]
      kept == SelectSeq(results, IsOk)
  IN SortFrames([i \in 1..Len(kept) |-> kept[i].v])

(***************************************************************************)
(* Number.prototype.toString(36).                                          *)
(***************************************************************************)
Digits36 ==
  <<"0", "1", "2", "3", "4", "5", "6", "7", "8", "9", "a", "b", "c", "d", "e", "f",
    "g", "h", "i", "j", "k", "l", "m", "n", "o", "p", "q", "r", "s", "t", "u", "v",
    "w", "x", "y", "z">>

RECURSIVE ToString36(_)
ToString36(n) ==
  IF n < Len(Digits36) THEN Digits36[n + 1]
  ELSE ToString36(n \div Len(Digits36)) \o Digits36[(n % Len(Digits36)) + 1]

(***************************************************************************)
(* Upstream payloads of the specification Spec.                            *)
(***************************************************************************)
\* a JSON object of the members that are present (Undef marks an omitted one)
Present(member) == member[2].t # "undef"
Fields(members) == Obj(SelectSeq(members, Present))

\* a structured position record
Balloon(id, lat, lon, altitude) ==
  Obj(<< <<"id", Str(id)>>, <<"lat", lat>>, <<"lon", lon>>, <<"altitude", altitude>> >>)

\* a member no conversion to a primitive accepts: {"toString": 1}
Unconvertible == Obj(<< <<"toString", Num(1)>> >>)

\* a GeoJSON feature
Feature(id, lon, lat, time) ==
  Obj(<< <<"id", Str(id)>>,
         <<"properties", Obj(<< <<"mag", Num(5)>>, <<"place", Str("somewhere")>>,
                                <<"time", time>>, <<"url", Str("http://q/" \o id)>> >>)>>,
         <<"geometry", Obj(<< <<"coordinates", Arr(<<lon, lat>>)>> >>)>> >>)

\* what the position source can answer for an hour: Thrown is a rejected
\* request (network error, timeout, non-2xx status), Str("") an empty body
FrameResponses(h) ==
  IF h = 0 THEN
    <<Thrown, Str(""),
      Arr(<<Balloon("b1", Num(0), Num(90), Num(1500)),
            Balloon("b2", Num(90), Num(0), Null)>>),
      Arr(<<Balloon("b3", Unconvertible, Num(0), Null)>>)>>
  ELSE
    <<Thrown, Str(""),
      Arr(<<Balloon("b1", Num(0), Num(0), Num(1000))>>)>>

\* what the event source can answer: a rejected request, a body without a
\* features array, a feed of two events
QuakeResponses ==
  <<Thrown,
    Obj(<< <<"type", Str("FeatureCollection")>> >>),
    Obj(<< <<"features", Arr(<<Feature("q1", Num(0), Num(90), Num(40)),
                               Feature("q2", Num(0), Num(0), Num(41))>>)>> >>)>>

\* the identifiers a lookup asks for
LookupIds == {"b1", "nobody"}

(***************************************************************************)
(* The server.                                                             *)
(***************************************************************************)
VARIABLES
  proc,      \* "booting", "serving", "exited" (process.exit(1)) or "crashed"
  now,       \* Date.now(), in ticks
  started,   \* the refresh cycles started so far
  inflight,  \* cycle id -> the state of that call of refreshData
  cache,     \* index.js:18-28
  wrote,     \* for each snapshot field of cache, the cycle that assigned it
  last       \* what the last step produced: a response or a cycle's outcome

vars == <<proc, now, started, inflight, cache, wrote, last>>

StartTime == MAX_LOOKBACK_HOURS * TicksPerHour

Hours == 0..(MAX_LOOKBACK_HOURS - 1)

NoEvent == [kind |-> "none"]

\* what the upstream sent is kept beside what the code made of it: the
\* hours that were answered with a body, the answer of the feed, and the
\* order in which the requests for the frames settled
HasBody(response) == ~IsThrown(response) /\ response # Str("")

\* refreshData up to its await: the 24 requests and the feed request are
\* sent.  Hours from MaxLiveHours on are down; such a request only ever
\* sets its own slot to null, which is entered here.
NewCycle(boot, t) ==
  [boot |-> boot,
   nowMs |-> t,
   jobs |-> [h \in Hours |-> IF h < MaxLiveHours THEN Pending ELSE Null],
   quake |-> Pending,
   answered |-> {},
   feed |-> Pending,
   order |-> <<>>]

Running == proc \in {"booting", "serving"}

Init ==
  /\ proc = "booting"
  /\ now = StartTime
  /\ started = 1
  /\ inflight = (1 :> NewCycle(TRUE, StartTime))
  /\ cache = [frames |-> <<>>, balloons |-> <<>>, earthquakes |-> <<>>,
              meta |-> [lastRefresh |-> Null, etag |-> Str("0")],
              questions |-> <<>>]
  /\ wrote = [frames |-> 0, earthquakes |-> 0, balloons |-> 0,
              lastRefresh |-> 0, etag |-> 0]
  /\ last = NoEvent

Without(f, c) == [k \in DOMAIN f \ {c} |-> f[k]]

Tick ==
  /\ Running
  /\ now < StartTime + MaxTicks
  /\ now' = now + 1
  /\ last' = NoEvent
  /\ UNCHANGED <<proc, started, inflight, cache, wrote>>

\* setInterval(refreshData, REFRESH_INTERVAL_MS) fires: the timer does not
\* wait for the previous call
TimerFires ==
  /\ proc = "serving"
  /\ started < MaxCycles
  /\ started' = started + 1
  /\ inflight' = inflight @@ ((started + 1) :> NewCycle(FALSE, now))
  /\ last' = NoEvent
  /\ UNCHANGED <<proc, now, cache, wrote>>

\* one request for a frame settles
FrameFetchSettles(c, h) ==
  /\ Running
  /\ c \in DOMAIN inflight
  /\ h \in Hours
  /\ inflight[c].jobs[h] = Pending
  /\ \E i \in 1..Len(FrameResponses(h)) :
       inflight' = [inflight EXCEPT
                      ![c].jobs[h] =
                        fetchWindborneFrame(h, inflight[c].nowMs, FrameResponses(h)[i]),
                      ![c].answered =
                        IF HasBody(FrameResponses(h)[i]) THEN @ \cup {h} ELSE @,
                      ![c].order = Append(@, h)]
  /\ last' = NoEvent
  /\ UNCHANGED <<proc, now, started, cache, wrote>>

\* the request for the event feed settles
QuakeFetchSettles(c) ==
  /\ Running
  /\ c \in DOMAIN inflight
  /\ inflight[c].quake = Pending
  /\ \E i \in 1..Len(QuakeResponses) :
       inflight' = [inflight EXCEPT
                      ![c].quake = Ok(fetchEarthquakes(QuakeResponses[i])),
                      ![c].feed = QuakeResponses[i]]
  /\ last' = NoEvent
  /\ UNCHANGED <<proc, now, started, cache, wrote>>

Settled(cycle) ==
  /\ \A h \in Hours : cycle.jobs[h] # Pending
  /\ cycle.quake # Pending

\* the assignments torn apart: frames and earthquakes are assigned, the
\* rest is still the previous cycle's
CommitTorn(c, frames, earthquakes, balloons) ==
  /\ cache' = [cache EXCEPT !.frames = frames, !.earthquakes = earthquakes]
  /\ wrote' = [wrote EXCEPT !.frames = c, !.earthquakes = c]

\* the assignments of a cycle that also empties the stored questions
CommitDropsQuestions(c, frames, earthquakes, balloons) ==
  /\ cache' = [cache EXCEPT !.frames = frames,
                            !.earthquakes = earthquakes,
                            !.balloons = balloons,
                            !.meta.lastRefresh = ToISOString(Num(now)),
                            !.meta.etag = Str(ToString36(now)),
                            !.questions = <<>>]
  /\ wrote' = [frames |-> c, earthquakes |-> c, balloons |-> c,
               lastRefresh |-> c, etag |-> c]

\* index.js:85-89
Commit(c, frames, earthquakes, balloons) ==
  /\ cache' = [cache EXCEPT !.frames = frames,
                            !.earthquakes = earthquakes,
                            !.balloons = balloons,
                            !.meta.lastRefresh = ToISOString(Num(now)),
                            !.meta.etag = Str(ToString36(now))]
  /\ wrote' = [frames |-> c, earthquakes |-> c, balloons |-> c,
               lastRefresh |-> c, etag |-> c]

\* index.js:84: Ok(balloons) or Thrown
Enrich(frames, earthquakes) ==
  Only({IF IsThrown(built) THEN Thrown
        ELSE Only({attachNearestEarthquake(tracks, earthquakes) : tracks \in {built.v}}) :
        built \in {buildBalloonTracks(frames)}})

CycleEvent(c, outcome, frames) ==
  [kind |-> "cycle", id |-> c, boot |-> inflight[c].boot, outcome |-> outcome,
   frames |-> frames, earthquakes |-> inflight[c].quake.v,
   answered |-> inflight[c].answered, feed |-> inflight[c].feed,
   order |-> inflight[c].order]

\* both promises of index.js:82 are resolved and refreshData runs to its end
CyclePublishes(c) ==
  /\ Running
  /\ c \in DOMAIN inflight
  /\ Settled(inflight[c])
  /\ \E frames \in {loadWindborneHistory(inflight[c].jobs)},
        earthquakes \in {inflight[c].quake.v} :
       \E balloons \in {Enrich(frames, earthquakes)} :
         /\ ~IsThrown(balloons)
         /\ \E tracks \in {balloons.v} : Commit(c, frames, earthquakes, tracks)
         /\ last' = CycleEvent(c, "published", frames)
  \* index.js:346-350: after the first cycle the timer is set and the
  \* server listens
  /\ proc' = "serving"
  /\ inflight' = Without(inflight, c)
  /\ UNCHANGED <<now, started>>

\* index.js:84 throws in the first cycle: bootstrap() rejects and
\* index.js:367-370 ends the process
BootCycleThrows(c) ==
  /\ proc = "booting"
  /\ c \in DOMAIN inflight
  /\ Settled(inflight[c])
  /\ \E frames \in {loadWindborneHistory(inflight[c].jobs)},
        earthquakes \in {inflight[c].quake.v} :
       /\ IsThrown(Enrich(frames, earthquakes))
       /\ last' = CycleEvent(c, "rejected", frames)
  /\ proc' = "exited"
  /\ inflight' = <<>>
  /\ UNCHANGED <<now, started, cache, wrote>>

\* index.js:84 throws in a cycle the timer started: the promise refreshData
\* returned to setInterval rejects and nothing handles it.  Node ends the
\* process on an unhandled rejection (the default since Node 15) or only
\* warns (earlier versions, --unhandled-rejections=warn).
TimerCycleThrows(c) ==
  /\ proc = "serving"
  /\ c \in DOMAIN inflight
  /\ Settled(inflight[c])
  /\ \E frames \in {loadWindborneHistory(inflight[c].jobs)},
        earthquakes \in {inflight[c].quake.v} :
       /\ IsThrown(Enrich(frames, earthquakes))
       /\ last' = CycleEvent(c, "rejected", frames)
  /\ \/ /\ proc' = "crashed"
        /\ inflight' = <<>>
     \/ /\ proc' = "serving"
        /\ inflight' = Without(inflight, c)
  /\ UNCHANGED <<now, started, cache, wrote>>

(***************************************************************************)
(* Query handlers.                                                         *)
(***************************************************************************)
\* index.js:30-32
HealthResponse ==
  [kind |-> "response", op |-> "health", status |-> 200,
   body |-> [ok |-> TRUE, lastRefresh |-> cache.meta.lastRefresh]]

FrameSummary(f) ==
  [hourTag |-> f.hourTag, timestamp |-> f.timestamp, recordCount |-> f.recordCount]

\* index.js:34-46
ConstellationResponse(ifNoneMatch) ==
  IF ifNoneMatch = cache.meta.etag
  THEN [kind |-> "response", op |-> "constellation", status |-> 304]
  ELSE [kind |-> "response", op |-> "constellation", status |-> 200,
        etag |-> cache.meta.etag,
        body |-> [balloons |-> cache.balloons,
                  frames |-> [i \in 1..Len(cache.frames) |-> FrameSummary(cache.frames[i])],
                  earthquakes |-> SubSeq(cache.earthquakes, 1,
                                         IF Len(cache.earthquakes) < 10
                                         THEN Len(cache.earthquakes) ELSE 10),
                  meta |-> cache.meta]]

\* index.js:48-55
BalloonResponse(id) ==
  LET hit == {i \in 1..Len(cache.balloons) : cache.balloons[i].balloonId = id}
  IN IF hit = {}
     THEN [kind |-> "response", op |-> "balloon", status |-> 404, id |-> id]
     ELSE [kind |-> "response", op |-> "balloon", status |-> 200, id |-> id,
           body |-> cache.balloons[MinOf(hit)]]

\* index.js:57-59
EarthquakesResponse ==
  [kind |-> "response", op |-> "earthquakes", status |-> 200,
   body |-> [earthquakes |-> cache.earthquakes, meta |-> cache.meta]]

\* app.listen called before the first refreshData is awaited
ServeEarly(response) ==
  /\ proc \in {"booting", "serving"}
  /\ last' = response
  /\ UNCHANGED <<proc, now, started, inflight, cache, wrote>>

Serve(response) ==
  /\ proc = "serving"
  /\ last' = response
  /\ UNCHANGED <<proc, now, started, inflight, cache, wrote>>

GetHealth == Serve(HealthResponse)

\* the If-None-Match header: absent, or the current token
GetConstellation ==
  \E ifNoneMatch \in {Undef, cache.meta.etag} :
    Serve(ConstellationResponse(ifNoneMatch))

GetBalloon == \E id \in LookupIds : Serve(BalloonResponse(id))

GetEarthquakes == Serve(EarthquakesResponse)

\* String.prototype.trim of the string literals the requests use
Trim(s) ==
  CASE s = " " -> ""
    [] s = " hi " -> "hi"
    [] s = " a@b " -> "a@b"
    [] OTHER -> s

\* typeof x === 'string'
IsString(x) == x.t = "str"

\* what a member of a request body can hold
QuestionValues == {Undef, Null, Str(""), Str(" "), Str("hi"), Str(" hi "), Num(5)}
ContactValues == {Undef, Null, Str(""), Str(" "), Str("a@b"), Str(" a@b "), Num(5)}

\* the parsed JSON bodies of the requests; Undef is a request without a body
QuestionBodies ==
  {Fields(<< <<"message", m>>, <<"contact", c>> >>) :
     m \in QuestionValues, c \in ContactValues} \cup {Undef}

\* index.js:61-79
QuestionResponse(body) ==
  LET fields == Or(body, Obj(<<>>))
      message == GetProp(fields, "message")
      contact == GetProp(fields, "contact")
  IN IF ~Truthy(message) \/ ~IsString(message)
     THEN [kind |-> "response", op |-> "question", status |-> 400, request |-> body,
           body |-> [error |-> "Missing question text in \"message\""]]
     ELSE IF ~Truthy(contact) \/ ~IsString(contact)
     THEN [kind |-> "response", op |-> "question", status |-> 400, request |-> body,
           body |-> [error |-> "Please include contact info in \"contact\""]]
     ELSE [kind |-> "response", op |-> "question", status |-> 202, request |-> body,
           body |-> [ok |-> TRUE,
                     received |-> [id |-> Str(ToString36(now)),
                                   message |-> Str(Trim(message.v)),
                                   contact |-> Str(Trim(contact.v)),
                                   receivedAt |-> ToISOString(Num(now))]]]

PostQuestion ==
  /\ proc = "serving"
  /\ Len(cache.questions) < MaxQuestions
  /\ \E body \in QuestionBodies :
       \E response \in {QuestionResponse(body)} :
         /\ last' = response
         /\ cache' = IF response.status = 202
                     THEN [cache EXCEPT !.questions = Append(@, response.body.received)]
                     ELSE cache
  /\ UNCHANGED <<proc, now, started, inflight, wrote>>

(***************************************************************************)
(* Specifications of one refresh cycle on wider inputs: the first cycle's  *)
(* requests have all settled, every request with one of the answers        *)
(* enumerated below; the cycle then runs to its end and queries follow.    *)
(***************************************************************************)
\* the answers of the hours, in hour order, as settled jobs of a cycle
SettledJobs(responses) ==
  [h \in Hours |-> IF h < Len(responses)
                   THEN fetchWindborneFrame(h, StartTime, responses[h + 1])
                   ELSE Null]

InitSettled(responses, feed) ==
  /\ proc = "booting"
  /\ now = StartTime
  /\ started = 1
  /\ inflight = (1 :> [boot |-> TRUE,
                       nowMs |-> StartTime,
                       jobs |-> SettledJobs(responses),
                       quake |-> Ok(fetchEarthquakes(feed)),
                       answered |-> {h \in 0..(Len(responses) - 1) :
                                       HasBody(responses[h + 1])},
                       feed |-> feed,
                       order |-> [i \in 1..Len(responses) |-> i - 1]])
  /\ cache = [frames |-> <<>>, balloons |-> <<>>, earthquakes |-> <<>>,
              meta |-> [lastRefresh |-> Null, etag |-> Str("0")],
              questions |-> <<>>]
  /\ wrote = [frames |-> 0, earthquakes |-> 0, balloons |-> 0,
              lastRefresh |-> 0, etag |-> 0]
  /\ last = NoEvent

NextSettled ==
  \/ \E c \in 1..MaxCycles : CyclePublishes(c)
  \/ \E c \in 1..MaxCycles : BootCycleThrows(c)
  \/ GetHealth
  \/ GetConstellation
  \/ GetBalloon
  \/ GetEarthquakes

TwoQuakes ==
  Obj(<< <<"features", Arr(<<Feature("q1", Num(0), Num(90), Num(40)),
                             Feature("q2", Num(0), Num(0), Num(41))>>)>> >>)

(* ----- records: one record in the newest frame ------------------------- *)
\* what a coordinate member can hold
CoordinateValues ==
  <<Undef, Null, Str(""), Str("abc"), Num(0), Num(90), Str("90"), Unconvertible>>

FewValues == <<Undef, Null, Str("abc"), Num(90)>>

FlatRecords ==
  {Fields(<< <<"id", Str("b1")>>, <<"lat", CoordinateValues[i]>>,
             <<"lon", CoordinateValues[j]>>, <<"altitude", Num(1000)>> >>) :
     i, j \in 1..Len(CoordinateValues)}

AliasRecords ==
  {Fields(<< <<"name", Str("b1")>>, <<"latitude", FewValues[i]>>,
             <<"lng", FewValues[j]>> >>) : i, j \in 1..Len(FewValues)}

PairRecords ==
  {Fields(<< <<"id", Str("b1")>>,
             <<"coordinates", Arr(<<CoordinateValues[j], CoordinateValues[i]>>)>> >>) :
     i, j \in 2..Len(CoordinateValues)}

NestedRecords ==
  {Fields(<< <<"id", Str("b1")>>,
             <<"position", Fields(<< <<"lat", FewValues[i]>>,
                                     <<"lon", FewValues[j]>> >>)>> >>) :
     i, j \in 1..Len(FewValues)}

ArrayRecords ==
  {Arr(<<CoordinateValues[i], CoordinateValues[j]>>) :
     i, j \in 2..Len(CoordinateValues)}
  \cup {Arr(<<CoordinateValues[i], CoordinateValues[j], FewValues[k]>>) :
     i, j \in 2..Len(CoordinateValues), k \in 2..Len(FewValues)}
  \cup {Arr(<<>>), Arr(<<Num(90)>>)}

\* what an optional member can hold
OptionalValues == <<Undef, Null, Str(""), Str("abc"), Num(0)>>

\* records with sound coordinates and optional altitude, speed and bearing
OptionalRecords ==
  {Fields(<< <<"id", Str("b1")>>, <<"lat", Num(0)>>, <<"lon", Num(90)>>,
             <<"altitude", OptionalValues[i]>>, <<"alt", alt>>,
             <<"speed", OptionalValues[j]>>,
             <<"heading", OptionalValues[k]>> >>) :
     i, j, k \in 1..Len(OptionalValues), alt \in {Undef, Num(1000)}}

RecordInputs ==
  FlatRecords \cup AliasRecords \cup PairRecords \cup NestedRecords \cup ArrayRecords
  \cup OptionalRecords
  \cup {Null, Num(5), Str("abc"), Fields(<< <<"id", Str("b1")>> >>)}

\* the older frame of the records specification: absent, or one good record
OlderFrames == <<Thrown, Arr(<<Balloon("b1", Num(0), Num(0), Num(500))>>)>>

InitRecords ==
  \E entry \in RecordInputs, i \in 1..Len(OlderFrames) :
    InitSettled(<<Arr(<<entry>>), OlderFrames[i]>>, TwoQuakes)

SpecRecords == InitRecords /\ [][NextSettled]_vars

(* ----- tracks: two frames of timed records ------------------------------ *)
\* a record of a balloon at the origin; altitude tells the records apart
TimedRecord(id, time, altitude) ==
  Fields(<< <<"id", Str(id)>>, <<"lat", Num(0)>>, <<"lon", Num(0)>>,
            <<"timestamp", time>>, <<"altitude", Num(altitude)>> >>)

\* the timestamp member of a record: omitted (the frame's instant is used),
\* or the instant between the two frames' (one tick before the newest)
RecordTimes == {Undef, Num(StartTime - 1)}

TrackIdsIn == {"b1", "b2"}

\* the bodies of hour h: up to MaxRecords records
TrackBodies(h) ==
  UNION {{Arr([i \in 1..n |-> TimedRecord(ids[i], times[i], 10 * h + i)]) :
            ids \in [1..n -> TrackIdsIn], times \in [1..n -> RecordTimes]} :
         n \in 0..MaxRecords}

InitTracks ==
  \/ \E newest \in TrackBodies(0), older \in TrackBodies(1) :
       InitSettled(<<newest, older>>, TwoQuakes)
  \/ InitSettled(<<Arr(<<Balloon("b3", Unconvertible, Num(0), Null)>>)>>, TwoQuakes)

SpecTracks == InitTracks /\ [][NextSettled]_vars

(* ----- join: one balloon and a feed of up to MaxEvents features -------- *)
\* where an event can be; a feature's coordinates are [lon, lat]
EventPlaces == {<<Num(0), Num(0)>>, <<Num(90), Num(0)>>, <<Num(-90), Num(0)>>,
                <<Num(0), Num(90)>>}

\* the features: sound ones, one without a time, one whose coordinates are
\* text, one with a single coordinate, one whose coordinate cannot be
\* converted
FeatureKinds ==
  {[lon |-> p[1], lat |-> p[2], time |-> Num(40), short |-> FALSE] : p \in EventPlaces}
  \cup {[lon |-> Num(0), lat |-> Num(0), time |-> Undef, short |-> FALSE],
        [lon |-> Str("abc"), lat |-> Str("abc"), time |-> Num(40), short |-> FALSE],
        [lon |-> Num(0), lat |-> Num(0), time |-> Num(40), short |-> TRUE],
        [lon |-> Unconvertible, lat |-> Num(0), time |-> Num(40), short |-> FALSE]}

FeatureOf(kind, i) ==
  IF kind.short
  THEN Obj(<< <<"id", Str("q" \o ToString(i))>>,
              <<"properties", Obj(<< <<"time", kind.time>> >>)>>,
              <<"geometry", Obj(<< <<"coordinates", Arr(<<kind.lon>>)>> >>)>> >>)
  ELSE Feature("q" \o ToString(i), kind.lon, kind.lat, kind.time)

Feeds ==
  UNION {{Obj(<< <<"features", Arr([i \in 1..n |-> FeatureOf(kinds[i], i)])>> >>) :
            kinds \in [1..n -> FeatureKinds]} :
         n \in 0..MaxEvents}

\* where the balloon is: [lat, lon]
BalloonPlaces == {<<Num(0), Num(0)>>, <<Num(90), Num(0)>>, <<Num(0), Num(90)>>}

InitJoin ==
  \E p \in BalloonPlaces, feed \in Feeds \cup {Thrown} :
    InitSettled(<<Arr(<<Balloon("b1", p[1], p[2], Num(1000)),
                        Balloon("b2", Num(0), Num(0), Null)>>)>>, feed)

SpecJoin == InitJoin /\ [][NextSettled]_vars

(* ----- metrics: one frame of up to MaxPoints records of one balloon ----- *)
\* a record of balloon b1 on the equator
MetricRecord(lon, altitude, time) ==
  Fields(<< <<"id", Str("b1")>>, <<"lat", Num(0)>>, <<"lon", lon>>,
            <<"altitude", altitude>>, <<"timestamp", time>> >>)

\* where a record is and how high: [lon, altitude] (Undef: no altitude member)
MetricPoints == {<<Num(0), Undef>>, <<Num(0), Num(1000)>>,
                 <<Num(90), Num(1500)>>, <<Num(90), Undef>>}

MetricBodies ==
  UNION {{Arr([i \in 1..n |-> MetricRecord(points[i][1], points[i][2], times[i])]) :
            points \in [1..n -> MetricPoints], times \in [1..n -> RecordTimes]} :
         n \in 0..MaxPoints}

InitMetrics ==
  \/ \E body \in MetricBodies : InitSettled(<<body>>, TwoQuakes)
  \/ InitSettled(<<Arr(<<Balloon("b3", Unconvertible, Num(0), Null)>>)>>, TwoQuakes)

SpecMetrics == InitMetrics /\ [][NextSettled]_vars

(* ----- inquiries: the server after its first cycle, and requests ------- *)
InitQuestions ==
  InitSettled(<<Arr(<<Balloon("b1", Num(0), Num(90), Num(1500))>>)>>, TwoQuakes)

NextQuestions ==
  \/ \E c \in 1..MaxCycles : CyclePublishes(c)
  \/ Tick
  \/ PostQuestion
  \/ GetHealth

SpecQuestions == InitQuestions /\ [][NextQuestions]_vars

(***************************************************************************)
(* Specification of the fan-out: the first cycle's requests for the first  *)
(* FrameHours hours are in flight and settle in any order, each with any   *)
(* of its answers.                                                         *)
(***************************************************************************)
InitFrames ==
  /\ proc = "booting"
  /\ now = StartTime
  /\ started = 1
  /\ inflight = (1 :> [NewCycle(TRUE, StartTime) EXCEPT
                         !.jobs = [h \in Hours |-> IF h < FrameHours
                                                   THEN Pending ELSE Null]])
  /\ cache = [frames |-> <<>>, balloons |-> <<>>, earthquakes |-> <<>>,
              meta |-> [lastRefresh |-> Null, etag |-> Str("0")],
              questions |-> <<>>]
  /\ wrote = [frames |-> 0, earthquakes |-> 0, balloons |-> 0,
              lastRefresh |-> 0, etag |-> 0]
  /\ last = NoEvent

NextFrames ==
  \/ \E c \in 1..MaxCycles, h \in Hours : FrameFetchSettles(c, h)
  \/ \E c \in 1..MaxCycles : QuakeFetchSettles(c)
  \/ \E c \in 1..MaxCycles : CyclePublishes(c)
  \/ \E c \in 1..MaxCycles : BootCycleThrows(c)
  \/ GetConstellation

SpecFrames == InitFrames /\ [][NextFrames]_vars

\* SpecFrames with the scheduling of the event loop: a request in flight
\* settles (axios resolves, rejects or times out, index.js:110 and
\* index.js:290), and a call of refreshData whose requests have all
\* settled is resumed
\* what the end of a call of refreshData, published or thrown, does to the
\* calls in flight
CycleEnds(c) ==
  /\ c \in DOMAIN inflight
  /\ Settled(inflight[c])
  /\ inflight' \in {Without(inflight, c), <<>>}

Fairness ==
  /\ \A c \in 1..MaxCycles, h \in 0..(FrameHours - 1) :
       WF_vars(FrameFetchSettles(c, h))
  /\ \A c \in 1..MaxCycles : WF_vars(QuakeFetchSettles(c))
  /\ \A c \in 1..MaxCycles : WF_inflight(CycleEnds(c))

SpecFramesFair == SpecFrames /\ Fairness

(***************************************************************************)
(* Specification of frames of bare-array records: the newest frame holds   *)
(* up to MaxArrays of them, the older frame at most one.                   *)
(***************************************************************************)
\* bare-array records [lat, lon, altitude]: sound ones, numbers as text, a
\* null, text, a single element, and a member that cannot be converted
BareArrays ==
  {Arr(<<Num(0), Num(90)>>), Arr(<<Num(90), Num(0), Num(1000)>>),
   Arr(<<Str("90"), Str("0")>>), Arr(<<Null, Num(0)>>),
   Arr(<<Str("abc"), Num(0)>>), Arr(<<Num(0)>>), Arr(<<Unconvertible, Num(0)>>)}

ArrayBodies(most) ==
  UNION {{Arr(records) : records \in [1..n -> BareArrays]} : n \in 0..most}

InitArrays ==
  \E newest \in ArrayBodies(MaxArrays), older \in ArrayBodies(1) :
    InitSettled(<<newest, older>>, TwoQuakes)

SpecArrays == InitArrays /\ [][NextSettled]_vars

(***************************************************************************)
(* Specification of the two kinds of state together: the first cycle's     *)
(* requests have settled; it publishes, the timer starts one more cycle,   *)
(* and inquiries and queries arrive while that cycle runs and ends.        *)
(***************************************************************************)
InitShared == InitQuestions

NextShared ==
  \/ started < SharedCycles /\ TimerFires
  \/ \E c \in 1..MaxCycles, h \in Hours : FrameFetchSettles(c, h)
  \/ \E c \in 1..MaxCycles : QuakeFetchSettles(c)
  \/ \E c \in 1..MaxCycles : CyclePublishes(c)
  \/ \E c \in 1..MaxCycles : TimerCycleThrows(c)
  \/ PostQuestion
  \/ GetHealth
  \/ GetConstellation
  \/ GetBalloon
  \/ GetEarthquakes

SpecShared == InitShared /\ [][NextShared]_vars

Next ==
  \/ Tick
  \/ TimerFires
  \/ \E c \in 1..MaxCycles, h \in Hours : FrameFetchSettles(c, h)
  \/ \E c \in 1..MaxCycles : QuakeFetchSettles(c)
  \/ \E c \in 1..MaxCycles : CyclePublishes(c)
  \/ \E c \in 1..MaxCycles : BootCycleThrows(c)
  \/ \E c \in 1..MaxCycles : TimerCycleThrows(c)
  \/ GetHealth
  \/ GetConstellation
  \/ GetBalloon
  \/ GetEarthquakes

Spec == Init /\ [][Next]_vars

(***************************************************************************)
(* Properties of the orchestrator (specification Spec).                    *)
(***************************************************************************)
SnapshotFields == {"frames", "balloons", "earthquakes", "lastRefresh", "etag"}

\* C1: snapshot atomicity.  In every state in which a query handler can run
\* or has just answered, the snapshot fields of the cache (frames, balloons,
\* earthquakes, meta.lastRefresh, meta.etag) were all assigned by one and
\* the same refresh cycle, the balloons are the ones computed from exactly
\* the frames and earthquakes beside them, and a list response carries the
\* balloons, events and meta of that one cycle.
C1_SnapshotAtomicity ==
  proc = "serving" =>
    /\ \A f, g \in SnapshotFields : wrote[f] = wrote[g]
    /\ wrote.frames # 0
    /\ Ok(cache.balloons) = Enrich(cache.frames, cache.earthquakes)
    /\ (last.kind = "response" /\ last.op = "constellation" /\ last.status = 200) =>
         /\ Ok(last.body.balloons) = Enrich(cache.frames, cache.earthquakes)
         /\ last.body.meta = cache.meta
         /\ \A i \in 1..Len(last.body.earthquakes) :
              last.body.earthquakes[i] = cache.earthquakes[i]
    /\ (last.kind = "response" /\ last.op = "earthquakes") =>
         /\ last.body.earthquakes = cache.earthquakes
         /\ last.body.meta = cache.meta

\* a list response is given while the snapshot is the third cycle's and the
\* second cycle, started before it, is still in flight
C1_Witness ==
  /\ last.kind = "response"
  /\ last.op = "constellation"
  /\ last.status = 200
  /\ wrote.balloons = 3
  /\ 2 \in DOMAIN inflight
  /\ Len(cache.balloons) > 0

\* C4: a refresh cycle started by the timer that fails with an exception
\* neither ends the process nor changes the published snapshot: after the
\* failing step the server still serves and frames, balloons, earthquakes,
\* lastRefresh and etag are what they were before it.
C4_ScheduledFailureContained ==
  [][(last'.kind = "cycle" /\ last'.outcome = "rejected" /\ ~last'.boot) =>
       (proc' = "serving" /\ cache' = cache /\ wrote' = wrote)]_vars

\* C5: a refresh cycle none of whose 24 frame requests was answered with a
\* body completes and publishes a snapshot of zero frames and zero tracks;
\* the list then answers 200 with an empty balloon list and a lookup by any
\* id answers 404, and so does every response given while that snapshot is
\* the published one.
C5_AllFramesFailedStillPublishes ==
  /\ (last.kind = "cycle" /\ last.answered = {}) =>
       /\ last.outcome = "published"
       /\ wrote.frames = last.id
       /\ wrote.balloons = last.id
       /\ cache.frames = <<>>
       /\ cache.balloons = <<>>
       /\ ConstellationResponse(Undef).status = 200
       /\ ConstellationResponse(Undef).body.balloons = <<>>
       /\ ConstellationResponse(Undef).body.frames = <<>>
       /\ \A id \in LookupIds : BalloonResponse(id).status = 404
  /\ (last.kind = "response" /\ wrote.frames # 0 /\ cache.frames = <<>>) =>
       /\ last.op = "balloon" => last.status = 404
       /\ (last.op = "constellation" /\ last.status = 200) =>
            last.body.balloons = <<>>

\* a cycle the timer started, with an answer for no frame (a rejected
\* request or an empty body), has published over a snapshot that had tracks,
\* and a lookup was answered from it
C5_Witness ==
  /\ last.kind = "response"
  /\ last.op = "balloon"
  /\ last.status = 404
  /\ wrote.frames > 1
  /\ cache.frames = <<>>
  /\ cache.balloons = <<>>
  /\ cache.earthquakes # <<>>

\* the answers of the feed that C6 calls a failed fetch: a rejected request
\* (network error, timeout, non-success status) or a body without a
\* features array
FeedFailed(feed) == IsThrown(feed) \/ ~IsArray(GetOpt(feed, "features"))

\* C6: when the feed request failed, fetchEarthquakes yielded the empty
\* sequence and the same cycle publishes: the snapshot is this cycle's, has
\* zero events, the frames of exactly the hours that were answered with a
\* body, and the tracks built from them.
C6_FeedFailureStillPublishes ==
  (last.kind = "cycle" /\ FeedFailed(last.feed)) =>
    /\ last.earthquakes = <<>>
    /\ last.outcome = "published"
    /\ wrote.balloons = last.id
    /\ cache.earthquakes = <<>>
    /\ cache.frames = last.frames
    /\ {cache.frames[i].hourTag : i \in 1..Len(cache.frames)}
         = {HourTag(h) : h \in last.answered}
    /\ Ok(cache.balloons) = buildBalloonTracks(cache.frames)

(***************************************************************************)
(* Properties of the record normalizer (specification SpecRecords).        *)
(***************************************************************************)
\* a member that holds a finite number: a number, or text that reads as one
HoldsNumber(v) ==
  \/ v.t = "num"
  \/ (v.t = "str" /\ v.v # "" /\ StringToNumber(v.v).t = "num")

\* the members a record can keep a nested position in
Containers(entry) ==
  {GetProp(entry, k) : k \in {"location", "position", "coordinates", "coord", "coords"}}

\* every place of a record a latitude can stand in
LatitudeValues(entry) ==
  IF IsArray(entry) THEN {GetIndex(entry, 0)}
  ELSE {GetProp(entry, "lat"), GetProp(entry, "latitude")}
       \cup {GetOpt(c, "lat") : c \in Containers(entry)}
       \cup {GetOpt(c, "latitude") : c \in Containers(entry)}
       \cup {GetIndex(c, 1) : c \in {d \in Containers(entry) : IsArray(d)}}

\* every place of a record a longitude can stand in
LongitudeValues(entry) ==
  IF IsArray(entry) THEN {GetIndex(entry, 1)}
  ELSE {GetProp(entry, "lon"), GetProp(entry, "lng"), GetProp(entry, "longitude")}
       \cup {GetOpt(c, "lon") : c \in Containers(entry)}
       \cup {GetOpt(c, "lng") : c \in Containers(entry)}
       \cup {GetOpt(c, "longitude") : c \in Containers(entry)}
       \cup {GetIndex(c, 0) : c \in {d \in Containers(entry) : IsArray(d)}}

\* the latitude or the longitude is missing or not a finite number
CoordinatesMissing(entry) ==
  \/ \A v \in LatitudeValues(entry) : ~HoldsNumber(v)
  \/ \A v \in LongitudeValues(entry) : ~HoldsNumber(v)

\* the sample was made from that record of that frame
DerivedFrom(sample, entry, frame) ==
  /\ sample.hourTag = frame.hourTag
  /\ sample.raw = IF IsArray(entry)
                  THEN Obj(<< <<"lat", GetIndex(entry, 0)>>, <<"lon", GetIndex(entry, 1)>>,
                              <<"altitude", GetIndex(entry, 2)>> >>)
                  ELSE entry

\* C2: for every record (bare array or object) of a published frame whose
\* latitude or longitude is missing or not a finite number, normalizeBalloon
\* returns no sample and no published track holds a sample made from it.
C2_NoSampleWithoutCoordinates ==
  \A i \in 1..Len(cache.frames) :
    \E frame \in {cache.frames[i]} :
      \E entries \in {unwrapEntries(frame.raw)} :
        \A k \in 1..Len(entries) :
          (entries[k].t \in {"arr", "obj"} /\ CoordinatesMissing(entries[k])) =>
            /\ ~IsOk(normalizeBalloon(entries[k], frame, k - 1))
            /\ \A j \in 1..Len(cache.balloons) :
                 \A n \in 1..Len(cache.balloons[j].track) :
                   ~DerivedFrom(cache.balloons[j].track[n], entries[k], frame)

\* C3: in every published snapshot every sample of every track, and every
\* track's latest sample, has a lat and a lon that are finite numbers.
C3_PublishedPositionsFinite ==
  \A j \in 1..Len(cache.balloons) :
    \E b \in {cache.balloons[j]} :
      /\ b.latest.lat.t = "num"
      /\ b.latest.lon.t = "num"
      /\ \A n \in 1..Len(b.track) :
           b.track[n].lat.t = "num" /\ b.track[n].lon.t = "num"

(***************************************************************************)
(* Properties of the event feed and the join (specification SpecJoin).     *)
(***************************************************************************)
\* the coordinates of a feature are two finite numbers
ValidCoordinates(feature) ==
  \E c \in {GetOpt(GetProp(feature, "geometry"), "coordinates")} :
    /\ IsArray(c)
    /\ Len(c.v) >= 2
    /\ c.v[1].t = "num"
    /\ c.v[2].t = "num"

\* C7: every feature of a feed whose coordinates are valid is kept in the
\* normalized event sequence, whether its time is missing, unparseable or
\* sound: a feature without a usable time removes no event from the result.
C7_BadTimeKeepsEvents ==
  (last.kind = "cycle" /\ IsArray(GetOpt(last.feed, "features"))) =>
    \E features \in {GetOpt(last.feed, "features").v} :
      \A i \in 1..Len(features) :
        ValidCoordinates(features[i]) =>
          \E j \in 1..Len(last.earthquakes) :
            /\ last.earthquakes[j].id = GetProp(features[i], "id")
            /\ last.earthquakes[j].coordinates
                 = GetProp(GetProp(features[i], "geometry"), "coordinates")

\* event k is a nearest one for the sample, and the first such in feed order
FirstNearest(earthquakes, k, latest) ==
  \E d \in {QuakeDistance(earthquakes[k], latest)} :
    /\ d.t = "num"
    /\ \A j \in 1..Len(earthquakes) :
         \E e \in {QuakeDistance(earthquakes[j], latest)} :
           /\ e.t = "num" => d.v <= e.v
           /\ (j < k /\ e.t = "num") => d.v < e.v

\* C8: whenever the published event sequence is non-empty, every published
\* track carries a nearest-event link, and the link is the first event in
\* feed order whose distance to the track's latest position is minimal.
C8_NearestEventLinked ==
  (wrote.balloons # 0 /\ cache.earthquakes # <<>>) =>
    \A i \in 1..Len(cache.balloons) :
      \E b \in {cache.balloons[i]} :
        /\ "nearestEarthquake" \in DOMAIN b
        /\ b.nearestEarthquake # Null
        /\ \E k \in 1..Len(cache.earthquakes) :
             /\ b.nearestEarthquake.id = cache.earthquakes[k].id
             /\ b.nearestEarthquake.coordinates = cache.earthquakes[k].coordinates
             /\ FirstNearest(cache.earthquakes, k, b.latest)

\* C9: when the published event sequence is empty no published track has a
\* nearestEarthquake field, and a nearestEarthquake field that is present
\* on a published track is never null.
C9_LinkAbsentNotNull ==
  \A i \in 1..Len(cache.balloons) :
    \E b \in {cache.balloons[i]} :
      /\ cache.earthquakes = <<>> => "nearestEarthquake" \notin DOMAIN b
      /\ "nearestEarthquake" \in DOMAIN b => b.nearestEarthquake # Null

\* the coordinates of a normalized event begin with two finite numbers
FiniteCoordinates(quake) ==
  /\ IsArray(quake.coordinates)
  /\ Len(quake.coordinates.v) >= 2
  /\ quake.coordinates.v[1].t = "num"
  /\ quake.coordinates.v[2].t = "num"

\* C18: the coordinates of every published event are two finite numbers,
\* and so are those of every event a published track is linked to: a
\* feature whose coordinates are missing, not an array, too short or hold
\* a non-finite element is published nowhere.
C18_EventCoordinatesFinite ==
  /\ \A k \in 1..Len(cache.earthquakes) : FiniteCoordinates(cache.earthquakes[k])
  /\ \A i \in 1..Len(cache.balloons) :
       \E b \in {cache.balloons[i]} :
         ("nearestEarthquake" \in DOMAIN b /\ b.nearestEarthquake # Null) =>
           FiniteCoordinates(b.nearestEarthquake)

\* the alias members of the optional fields of a sample
Aliases ==
  [altitude |-> {"altitude", "alt", "elevation", "height"},
   speed |-> {"speed", "vel", "velocity"},
   bearing |-> {"bearing", "heading", "course"}]

\* C20: for every object record of a published frame that yields a sample,
\* each of altitude, speed and bearing of the sample is null when none of
\* its alias members holds a parseable number (a member that is absent,
\* null, an empty string or other text holds none), and is 0 only when one
\* of its alias members holds the number 0.
C20_OptionalFieldsAbsentNotZero ==
  \A i \in 1..Len(cache.frames) :
    \E frame \in {cache.frames[i]} :
      \E entries \in {unwrapEntries(frame.raw)} :
        \A k \in 1..Len(entries) :
          \E made \in {IF entries[k].t = "obj"
                       THEN normalizeBalloon(entries[k], frame, k - 1)
                       ELSE Null} :
            IsOk(made) =>
              \A f \in DOMAIN Aliases :
                /\ (\A a \in Aliases[f] : ~HoldsNumber(GetProp(entries[k], a))) =>
                     made.v[f] = Null
                /\ made.v[f] = Num(0) =>
                     \E a \in Aliases[f] :
                       /\ HoldsNumber(GetProp(entries[k], a))
                       /\ ToNumber(GetProp(entries[k], a)) = Num(0)

(***************************************************************************)
(* Properties of the track builder (specification SpecTracks).             *)
(***************************************************************************)
\* the samples of s whose instant is t, in the order of s
AtTime(s, t) ==
  LET At(x) == TimeOf(x) = t
  IN SelectSeq(s, At)

\* the samples of one balloon in the order the builder encountered them
SeenOf(id) ==
  LET Mine(x) == x.balloonId = id
  IN SelectSeq(Encountered(cache.frames), Mine)

\* C10: in every published track the samples are in non-decreasing timestamp
\* order, the samples of one timestamp stand in the order they were
\* encountered (and are exactly the encountered ones), latest is the last
\* sample, firstSeen and lastSeen are the first and the last sample's
\* timestamps, and sampleCount is the length of the track, at least 1.
C10_TrackChronological ==
  \A i \in 1..Len(cache.balloons) :
    \E b \in {cache.balloons[i]} :
      \E seen \in {SeenOf(b.balloonId)} :
        /\ \A m, n \in 1..Len(b.track) :
             m < n => TimeOf(b.track[m]) <= TimeOf(b.track[n])
        /\ Len(b.track) = Len(seen)
        /\ \A n \in 1..Len(seen) :
             AtTime(b.track, TimeOf(seen[n])) = AtTime(seen, TimeOf(seen[n]))
        /\ b.sampleCount = Len(b.track)
        /\ b.sampleCount >= 1
        /\ b.latest = b.track[Len(b.track)]
        /\ b.firstSeen = b.track[1].timestamp
        /\ b.lastSeen = b.track[Len(b.track)].timestamp

\* a published track of three samples or more that were encountered out of
\* chronological order, two of them with the same timestamp
C10_Witness ==
  \E i \in 1..Len(cache.balloons) :
    \E b \in {cache.balloons[i]} :
      /\ Len(b.track) >= 3
      /\ b.track # SeenOf(b.balloonId)
      /\ \E m, n \in 1..Len(b.track) :
           /\ m < n
           /\ TimeOf(b.track[m]) = TimeOf(b.track[n])
           /\ b.track[m].hourTag # b.track[n].hourTag
      /\ b.firstSeen # b.lastSeen

(***************************************************************************)
(* Properties of the derived metrics (specification SpecMetrics).          *)
(***************************************************************************)
\* the distance between the samples i and i + 1 of a track
LegKm(track, i) ==
  haversineKm(track[i].lat, track[i].lon, track[i + 1].lat, track[i + 1].lon).v

\* the sum of the first n legs of a track
RECURSIVE LegSum(_, _)
LegSum(track, n) ==
  IF n = 0 THEN 0 ELSE LegSum(track, n - 1) + LegKm(track, n)

\* C11 as stated: for every published track totalDistanceKm is the sum of
\* the distances of all consecutive sample pairs in sorted order, and 0 for
\* a track of one sample.
C11_TotalIsSumOfLegs ==
  \A i \in 1..Len(cache.balloons) :
    \E b \in {cache.balloons[i]} :
      b.totalDistanceKm = LegSum(b.track, Len(b.track) - 1)

\* C11 as the code has it: totalDistanceKm is that sum rounded to two
\* decimals (a hundredth of a km), and 0 for a track of one sample.
C11_TotalIsRoundedSumOfLegs ==
  \A i \in 1..Len(cache.balloons) :
    \E b \in {cache.balloons[i]} :
      /\ b.totalDistanceKm = RoundUnits(LegSum(b.track, Len(b.track) - 1), 100)
      /\ Len(b.track) = 1 => b.totalDistanceKm = 0

\* a published track of three samples that goes out and comes back: its
\* total is two legs while its first and last samples are at one place
C11_Witness ==
  \E i \in 1..Len(cache.balloons) :
    \E b \in {cache.balloons[i]} :
      /\ Len(b.track) = 3
      /\ LegKm(b.track, 1) > 0
      /\ LegKm(b.track, 2) > 0
      /\ b.track[1].lon = b.track[3].lon
      /\ b.totalDistanceKm > 0

\* the altitude of a sample, 0 when it has none
AltitudeOrZero(sample) == IF sample.altitude.t = "num" THEN sample.altitude.v ELSE 0

\* C12: for every published track altitudeDelta is the altitude (or 0) of
\* the chronologically latest sample minus the altitude (or 0) of the
\* chronologically earliest one, which are the last and the first sample of
\* the track; the samples between them have no part in it.
C12_AltitudeDelta ==
  \A i \in 1..Len(cache.balloons) :
    \E b \in {cache.balloons[i]} :
      /\ \A n \in 1..Len(b.track) :
           /\ TimeOf(b.track[1]) <= TimeOf(b.track[n])
           /\ TimeOf(b.track[n]) <= TimeOf(b.track[Len(b.track)])
      /\ b.altitudeDelta = AltitudeOrZero(b.track[Len(b.track)])
                           - AltitudeOrZero(b.track[1])

\* a published track whose latest sample has no altitude, whose earliest
\* has one, with a sample of another altitude between them, built from
\* records that were not met in chronological order
C12_Witness ==
  \E i \in 1..Len(cache.balloons) :
    \E b \in {cache.balloons[i]} :
      /\ Len(b.track) = 3
      /\ b.track[3].altitude = Null
      /\ b.track[1].altitude = Num(1000)
      /\ b.track[2].altitude = Num(1500)
      /\ b.altitudeDelta = 0 - 1000
      /\ b.track # SeenOf(b.balloonId)

(***************************************************************************)
(* Properties of the change token and of readiness (specification Spec).   *)
(***************************************************************************)
\* C13: when a cycle publishes over the snapshot of an earlier cycle and the
\* content (tracks, events or frames) differs, the change token differs
\* too, so that a list request carrying the earlier token is not answered
\* 304 for content it has not seen.
C13_TokenChangesWithContent ==
  [][(/\ wrote.etag # 0
      /\ wrote'.etag # wrote.etag
      /\ \/ cache'.balloons # cache.balloons
         \/ cache'.earthquakes # cache.earthquakes
         \/ cache'.frames # cache.frames)
     => cache'.meta.etag # cache.meta.etag]_vars

\* C14: a response is given only by a serving process whose first cycle has
\* published (the snapshot is a cycle's, lastRefresh is set and the token
\* is not the initial "0"); and when the first cycle fails the process has
\* exited with the cache untouched, no cycle in flight and no response
\* given.
C14_ReadinessOrdering ==
  /\ last.kind = "response" =>
       /\ proc = "serving"
       /\ wrote.frames # 0
  /\ proc = "serving" =>
       /\ wrote.frames # 0
       /\ cache.meta.lastRefresh # Null
       /\ cache.meta.etag # Str("0")
  /\ (last.kind = "cycle" /\ last.boot /\ last.outcome = "rejected") =>
       proc = "exited"
  /\ proc = "exited" =>
       /\ last.kind = "cycle"
       /\ last.boot
       /\ wrote.frames = 0
       /\ cache.meta.etag = Str("0")
       /\ inflight = <<>>
  /\ proc = "booting" => (wrote.frames = 0 /\ last.kind = "none")

\* the first answer of the server: a health response given from the
\* snapshot of the first cycle
C14_Witness ==
  /\ last.kind = "response"
  /\ last.op = "health"
  /\ last.body.lastRefresh # Null
  /\ wrote.frames = 1
  /\ started = 1

(***************************************************************************)
(* Properties of the inquiries (specification SpecQuestions).              *)
(***************************************************************************)
\* the member is present, is text and is not empty
PopulatedText(x) == x.t = "str" /\ x.v # ""

\* both members of the request are populated as text
Populated(request) ==
  /\ request.t = "obj"
  /\ PopulatedText(GetProp(request, "message"))
  /\ PopulatedText(GetProp(request, "contact"))

\* C15: a request whose message or contact is missing, empty or not a
\* string is answered with a validation error (400) and leaves the stored
\* list as it was; a request with both members populated as text is
\* answered 202, appends exactly the record it acknowledges, and that
\* record's id, message and contact are non-empty.
C15_InquirySubmission ==
  [][(last'.kind = "response" /\ last'.op = "question") =>
       IF Populated(last'.request)
       THEN /\ last'.status = 202
            /\ cache'.questions = Append(cache.questions, last'.body.received)
            /\ last'.body.received.id.v # ""
            /\ last'.body.received.message.v # ""
            /\ last'.body.received.contact.v # ""
       ELSE /\ last'.status = 400
            /\ cache'.questions = cache.questions]_vars

(***************************************************************************)
(* Properties of the lookup (specification SpecTracks).                    *)
(***************************************************************************)
\* the positions of the published tracks of one identifier
TracksWithId(id) == {i \in 1..Len(cache.balloons) : cache.balloons[i].balloonId = id}

\* C16: whenever a lookup by id is answered, the snapshot holds at most one
\* track per identifier; the answer is that single track when the snapshot
\* has a track of the requested id and 404 otherwise; and the lookup leaves
\* the snapshot as it was.
C16_LookupByIdentifier ==
  [][(last'.kind = "response" /\ last'.op = "balloon") =>
       /\ cache' = cache
       /\ wrote' = wrote
       /\ \A i, j \in 1..Len(cache.balloons) :
            cache.balloons[i].balloonId = cache.balloons[j].balloonId => i = j
       /\ IF TracksWithId(last'.id) = {}
          THEN last'.status = 404
          ELSE /\ last'.status = 200
               /\ last'.body.balloonId = last'.id
               /\ \E i \in TracksWithId(last'.id) : last'.body = cache.balloons[i]
               /\ Cardinality(TracksWithId(last'.id)) = 1]_vars

\* a lookup answered with the one track of b1, which holds several samples,
\* from a snapshot that has a track of another balloon too
C16_Witness ==
  /\ last.kind = "response"
  /\ last.op = "balloon"
  /\ last.status = 200
  /\ last.id = "b1"
  /\ last.body.sampleCount >= 2
  /\ Len(cache.balloons) = 2

(***************************************************************************)
(* Properties of the frame loader (specification SpecFrames).              *)
(***************************************************************************)
\* the hours of a sequence of frames
HourTagsOf(frames) == {frames[i].hourTag : i \in 1..Len(frames)}

\* C17: whatever the order in which the requests settled and whichever of
\* them failed, the frames a cycle handed to the track builder are in
\* ascending order of their nominal timestamps and are exactly one frame
\* for every hour that was answered with a body, each with the nominal
\* timestamp of its hour; a cycle that publishes publishes those frames.
C17_FramesSortedAndComplete ==
  last.kind = "cycle" =>
    /\ \A i, j \in 1..Len(last.frames) :
         i < j => last.frames[i].timestamp < last.frames[j].timestamp
    /\ HourTagsOf(last.frames) = {HourTag(h) : h \in last.answered}
    /\ Len(last.frames) = Cardinality(last.answered)
    /\ \A i \in 1..Len(last.frames), h \in last.answered :
         last.frames[i].hourTag = HourTag(h) =>
           last.frames[i].timestamp = StartTime - h * TicksPerHour
    /\ last.outcome = "published" => cache.frames = last.frames

\* the requests settled newest hour first, the reverse of the published
\* order; the middle one failed and the two frames that remain were
\* published, the older one first
C17_Witness ==
  /\ last.kind = "cycle"
  /\ last.outcome = "published"
  /\ last.order = <<0, 1, 2>>
  /\ last.answered = {0, 2}
  /\ Len(cache.frames) = 2
  /\ cache.frames[1].hourTag = "02"

(***************************************************************************)
(* Progress of the refresh cycle (specification SpecFramesFair).           *)
(***************************************************************************)
\* C19: every refresh cycle that was started eventually finishes by
\* publishing its snapshot, whatever its requests were answered.
C19_CycleEventuallyPublishes ==
  \A c \in 1..MaxCycles :
    (c \in DOMAIN inflight) ~>
      (last.kind = "cycle" /\ last.id = c /\ last.outcome = "published")

(***************************************************************************)
(* Overlapping refresh cycles (specification Spec).                        *)
(***************************************************************************)
\* C21: the published snapshot never regresses.  Cycles are numbered in the
\* order they were started; no step replaces a snapshot field assigned by a
\* cycle with one assigned by a cycle that was started before it, so that
\* lastRefresh never stands beside data requested earlier than the data it
\* stood beside before.
C21_SnapshotNeverRegresses ==
  [][\A f \in SnapshotFields : wrote'[f] >= wrote[f]]_vars

(***************************************************************************)
(* Frame conditions (specification SpecShared).                            *)
(***************************************************************************)
\* the snapshot fields of a cache
SnapshotOf(c) ==
  [frames |-> c.frames, balloons |-> c.balloons, earthquakes |-> c.earthquakes,
   lastRefresh |-> c.meta.lastRefresh, etag |-> c.meta.etag]

\* C22: the end of a refresh cycle, published or thrown, leaves the stored
\* questions as they were; an inquiry submission, accepted or rejected, and
\* every GET query leave frames, balloons, earthquakes, lastRefresh and etag
\* as they were; and a step that changes one of those five fields is a
\* refresh cycle publishing.
C22_FrameConditions ==
  [][/\ last'.kind = "cycle" => cache'.questions = cache.questions
     /\ last'.kind = "response" =>
          /\ SnapshotOf(cache') = SnapshotOf(cache)
          /\ wrote' = wrote
     /\ (last'.kind = "response" /\ last'.op # "question") => cache' = cache
     /\ SnapshotOf(cache') # SnapshotOf(cache) =>
          (last'.kind = "cycle" /\ last'.outcome = "published")]_vars

\* the second cycle has just published while two inquiries are stored
C22_Witness ==
  /\ last.kind = "cycle"
  /\ last.id = 2
  /\ last.outcome = "published"
  /\ wrote.etag = 2
  /\ Len(cache.questions) = 2

(***************************************************************************)
(* Bare-array records (specification SpecArrays).                          *)
(***************************************************************************)
\* the records of a frame: [frame, index, entry]
RecordsOf(frame) ==
  UNION {{[frame |-> frame, idx |-> k - 1, entry |-> entries[k]] :
            k \in 1..Len(entries)} :
         entries \in {unwrapEntries(frame.raw)}}

PublishedRecords == UNION {RecordsOf(cache.frames[i]) : i \in 1..Len(cache.frames)}

\* C23: in a published snapshot whose frames hold only bare-array records,
\* every track has exactly one sample, total distance 0 and altitude delta
\* 0, no two tracks share an identifier, every track's identifier is
\* synthesized from the frame tag and index of one record, and there are as
\* many tracks as records with valid coordinates.
C23_BareArrayTracks ==
  (wrote.balloons # 0 /\ \A r \in PublishedRecords : IsArray(r.entry)) =>
    /\ \A i \in 1..Len(cache.balloons) :
         \E b \in {cache.balloons[i]} :
           /\ Len(b.track) = 1
           /\ b.sampleCount = 1
           /\ b.totalDistanceKm = 0
           /\ b.altitudeDelta = 0
           /\ \E r \in PublishedRecords :
                b.balloonId = "coord-" \o r.frame.hourTag \o "-" \o ToString(r.idx)
           /\ \A j \in 1..Len(cache.balloons) :
                cache.balloons[j].balloonId = b.balloonId => i = j
    /\ Len(cache.balloons)
         = Cardinality({r \in PublishedRecords : ~CoordinatesMissing(r.entry)})
====
